---------------------------- MODULE Spec2Model ----------------------------
(***************************************************************************)
(* Model of the time server (src/server.py): the Request and Response      *)
(* envelopes, the structured ApplicationError, the Router and its route    *)
(* table, the generic binder model_from_json with the three request        *)
(* models, and the seven handlers registered by create_application.        *)
(*                                                                         *)
(* Python strings that the code inspects (paths matched by the route       *)
(* patterns, time zone names built from path parameters, date strings)     *)
(* are tuples of one-character strings.  JSON keys and fixed texts are     *)
(* TLA+ strings.  Times are seconds relative to 2024-12-20 00:00:00.       *)
(***************************************************************************)
EXTENDS Integers, Sequences, FiniteSets, TLC

VARIABLES
    pc,           \* "idle" | "received" | "done": position of the WSGI callable
    request,      \* the Request being served: method, path, raw body
    pathParams,   \* Request.__path_params: Unset until set_path_params runs
    invoked,      \* handlers called by Router.handle_request, in call order
    handlerResult,\* what route.handler(request) did: its Response or its exception
    response,     \* the local variable `response` of Router.handle_request
    returned,     \* the Response that Router.handle_request returned
    raised,       \* the exception that left Router.handle_request
    sent,         \* what Response.send_response handed to the transport
    now,          \* the wall clock read by datetime.now
    paramResult,  \* outcome of the last Request.get_path_param call
    bindCls,      \* model_from_json: the target type
    bindJson,     \* model_from_json: the JSON value
    bindResult    \* model_from_json: the instance or the raised exception

vars ==
    <<pc, request, pathParams, invoked, handlerResult, response, returned, raised,
      sent, now,
      paramResult, bindCls, bindJson, bindResult>>

-----------------------------------------------------------------------------
(* Bounds of the model.                                                    *)

\* The clock takes the values 0 .. MaxClock.
MaxClock == 2

\* A generated JSON object holds at most MaxPairs key/value pairs, counted
\* over all nesting levels.
MaxPairs == 4

-----------------------------------------------------------------------------
(* Values shared by the whole model.                                       *)

\* Python's None, and "no value yet" for the variables of a request.
None == [t |-> "none"]

\* A Request on which set_path_params has not run: the attribute does not exist.
Unset == [t |-> "unset"]

\* Request.__path_params once set_path_params(path_params) has run.
Params(path_params) == [t |-> "set", params |-> path_params]

\* re character class [a-zA-Z_] of the route patterns.
WordChars ==
    {"a", "b", "c", "d", "e", "f", "g", "h", "i", "j", "k", "l", "m", "n", "o", "p", "q", "r", "s", "t", "u", "v", "w", "x", "y", "z",
     "A", "B", "C", "D", "E", "F", "G", "H", "I", "J", "K", "L", "M", "N", "O", "P", "Q", "R", "S", "T", "U", "V", "W", "X", "Y", "Z", "_"}

-----------------------------------------------------------------------------
(* Response and ApplicationError.                                          *)

\* Response.__init__: body, status code, content type.
Response(body, code, content_type) ==
    [body |-> body, code |-> code, content_type |-> content_type]

\* Response.json: json.dumps({'message': body}).
ResponseJson(body, code) ==
    Response([fmt |-> "json", key |-> "message", val |-> body], code, "application/json")

\* Response.error: json.dumps({'reason': message}).
ResponseError(message, code) ==
    Response([fmt |-> "json", key |-> "reason", val |-> message], code, "application/json")

\* Response.html: the body inside the fixed HTML skeleton.
ResponseHtml(body, code) ==
    Response([fmt |-> "html", key |-> "div", val |-> body], code, "text/html")

\* Response(text, code): a bare body with the default content type.
ResponsePlain(text, code) ==
    Response([fmt |-> "text", key |-> "", val |-> <<text>>], code, "application/json")

\* Response.send_response: status and headers go to the writer, the body is returned.
SendResponse(resp) ==
    [body |-> resp.body, status |-> resp.code,
     headers |-> <<<<"Content-Type", resp.content_type>>>>]

DEFAULT_ERROR_CODE == 400

\* ApplicationError(message, code): the structured error as a raised exception.
ApplicationErrorWith(message, code) ==
    [code |-> code, message |-> message, type |-> "ApplicationError"]

\* ApplicationError(message): code defaults to 400.
ApplicationError(message) ==
    ApplicationErrorWith(message, DEFAULT_ERROR_CODE)

\* Faulty variant of GetResponse: the message wrapped as a success payload.
GetResponseAsMessage(e) ==
    ResponseJson(e.message, e.code)

\* ApplicationError.get_response.
GetResponse(e) ==
    ResponseError(e.message, e.code)

\* Any other exception: only its type matters to the code.
PyException(type) ==
    [code |-> 0, message |-> <<>>, type |-> type]

\* The result of a call that returns a value.
Ok(value) ==
    [val |-> value, ok |-> TRUE]

\* The result of a call that raises.
Raise(exc) ==
    [ok |-> FALSE, exc |-> exc]

IsApplicationError(r) ==
    ~r.ok /\ r.exc.type = "ApplicationError"

-----------------------------------------------------------------------------
(* Request.                                                                *)

\* Request.get_method.
GetMethod(req) ==
    req.method

\* Request.get_path.
GetPath(req) ==
    req.path

\* A Python str value.
Str(chars) ==
    [t |-> "str", s |-> chars]

\* A JSON object: key/value pairs in document order, keys distinct.
Obj(pairs) ==
    [t |-> "obj", kv |-> pairs]

\* A JSON array.
List(items) ==
    [t |-> "list", items |-> items]

\* JSON null.
Null ==
    [t |-> "null"]

Pair(k, v) ==
    [k |-> k, v |-> v]

\* The decimal digits, in the order of their values.
DigitChars ==
    <<"0", "1", "2", "3", "4", "5", "6", "7", "8", "9">>

\* The value of the digits s[i..Len(s)] appended to the value acc, or
\* ValueError at a character that is no digit.
RECURSIVE DecimalValue(_, _, _)
DecimalValue(s, i, acc) ==
    IF i > Len(s) THEN Ok(acc)
    ELSE IF \A d \in 1..10 : DigitChars[d] # s[i] THEN Raise(PyException("ValueError"))
    ELSE DecimalValue(s, i + 1, 10 * acc + (CHOOSE d \in 1..10 : DigitChars[d] = s[i]) - 1)

\* The parsed digits with the sign applied.
Signed(sign, digits) ==
    IF ~digits.ok THEN digits
    ELSE IF sign = "-" THEN Ok(0 - digits.val)
    ELSE digits

\* int(content_length) for a non-empty str: an optional sign and decimal
\* digits, ValueError otherwise.  (Surrounding blanks and "_" between
\* digits, which int also accepts, occur in no header of the model.)
PyInt(s) ==
    IF s[1] \in {"+", "-"}
    THEN IF Len(s) = 1 THEN Raise(PyException("ValueError"))
         ELSE Signed(s[1], DecimalValue(s, 2, 0))
    ELSE DecimalValue(s, 1, 0)

\* The part of environ that get_body reads: CONTENT_LENGTH (None when the
\* key is absent, else a str) and what wsgi.input holds, which is no bytes
\* ("empty"), bytes that json.loads rejects ("malformed") or a JSON document
\* ("json", with its decoded value).
Input(kind, value, content_length) ==
    [value |-> value, kind |-> kind, content_length |-> content_length]

\* Request.get_body, its first statements: content_length is 0 when the
\* header is absent or empty, int(content_length) otherwise.
ContentLength(header) ==
    IF header.t = "none" THEN Ok(0)
    ELSE IF header.s = <<>> THEN Ok(0)
    ELSE PyInt(header.s)

\* Request.get_body from the read on, given the outcome of the statements
\* before it.
ReadBody(input, content_length) ==
    IF ~content_length.ok THEN content_length
    ELSE IF content_length.val <= 0 THEN Ok(Obj(<<>>))
    ELSE IF input.kind # "json" THEN Ok(Obj(<<>>))
    ELSE IF input.value = Str(<<>>) THEN Ok(Obj(<<>>))
    ELSE Ok(input.value)

\* Request.get_body: int(content_length) may raise ValueError; nothing is
\* read unless the length is positive; an empty or undecodable payload, and
\* the JSON string "", become the empty object; every other decoded JSON
\* value is returned as is.  A positive length of the model is never less
\* than the payload's size, so read(content_length) gives the whole payload.
GetBody(req) ==
    ReadBody(req.body, ContentLength(req.body.content_length))

\* Request.set_path_params: the default argument is the empty dict.
EmptyParams ==
    [n \in {} |-> <<>>]

\* Request.get_path_param on path parameters `params`.
GetPathParam(params, param_key) ==
    IF params.t = "unset" THEN Raise(PyException("AttributeError"))
    ELSE IF param_key \notin DOMAIN params.params THEN
        Raise(ApplicationError(<<"required path param not provided">>))
    ELSE Ok(params.params[param_key])

-----------------------------------------------------------------------------
(* Route patterns and re.match.                                            *)

\* A literal character of a pattern.
Lit(c) ==
    [tok |-> "lit", ch |-> c, name |-> "", min |-> 0]

\* (?P<name>[a-zA-Z_]+) with min = 1, (?P<name>[a-zA-Z_]{3,}) with min = 3.
Group(name, min) ==
    [tok |-> "group", ch |-> "", name |-> name, min |-> min]

NoMatch ==
    [matched |-> FALSE, groups |-> EmptyParams]

\* Length of the longest run of [a-zA-Z_] characters of path starting at j.
RECURSIVE WordRun(_, _)
WordRun(path, j) ==
    IF j <= Len(path) /\ path[j] \in WordChars THEN 1 + WordRun(path, j + 1) ELSE 0

\* re.match of the tokens pat[i..] against path[j..], every pattern being
\* written ^...$: the match starts at the first character, and $ accepts the
\* end of the string or the position before a final newline.  A group is
\* greedy and gives characters back until the rest of the pattern matches.
RECURSIVE MatchFrom(_, _, _, _, _)
RECURSIVE MatchGroup(_, _, _, _, _, _)
MatchFrom(pat, i, path, j, groups) ==
    IF i > Len(pat) THEN
        IF j = Len(path) + 1 \/ (j = Len(path) /\ path[j] = "\n")
        THEN [matched |-> TRUE, groups |-> groups]
        ELSE NoMatch
    ELSE IF pat[i].tok = "lit" THEN
        IF j <= Len(path) /\ path[j] = pat[i].ch
        THEN MatchFrom(pat, i + 1, path, j + 1, groups)
        ELSE NoMatch
    ELSE MatchGroup(pat, i, path, j, groups, WordRun(path, j))

MatchGroup(pat, i, path, j, groups, k) ==
    IF k < pat[i].min THEN NoMatch
    ELSE LET captured == SubSeq(path, j, j + k - 1)
             rest == MatchFrom(pat, i + 1, path, j + k,
                               (pat[i].name :> captured) @@ groups)
         IN  IF rest.matched THEN rest
             ELSE MatchGroup(pat, i, path, j, groups, k - 1)

\* regex.match(route.path_regex, path); the groups are match.groupdict().
ReMatch(pat, path) ==
    MatchFrom(pat, 1, path, 1, EmptyParams)

Slash == Lit("/")

\* r'^/$'
PatternRoot ==
    <<Slash>>

\* r'^/(?P<continent>[a-zA-Z_]+)/(?P<country>[a-zA-Z_]+)/(?P<city>[a-zA-Z_]+)$'
PatternContinentCountryCity ==
    <<Slash, Group("continent", 1), Slash, Group("country", 1), Slash, Group("city", 1)>>

\* r'^/(?P<continent>[a-zA-Z_]+)/(?P<city>[a-zA-Z_]+)$'
PatternContinentCity ==
    <<Slash, Group("continent", 1), Slash, Group("city", 1)>>

\* r'^/(?P<timezone>[a-zA-Z_]{3,})$'
PatternTimezone ==
    <<Slash, Group("timezone", 3)>>

ApiPrefix ==
    <<Slash, Lit("a"), Lit("p"), Lit("i"), Slash, Lit("v"), Lit("1"), Slash>>

\* r'^/api/v1/time$'
PatternApiTime ==
    ApiPrefix \o <<Lit("t"), Lit("i"), Lit("m"), Lit("e")>>

\* r'^/api/v1/date$'
PatternApiDate ==
    ApiPrefix \o <<Lit("d"), Lit("a"), Lit("t"), Lit("e")>>

\* r'^/api/v1/datediff$'
PatternApiDateDiff ==
    ApiPrefix \o <<Lit("d"), Lit("a"), Lit("t"), Lit("e"), Lit("d"), Lit("i"), Lit("f"), Lit("f")>>

\* Route(method, path_regex, handler).
Route(method, path_regex, handler) ==
    [method |-> method, path_regex |-> path_regex, handler |-> handler]

\* The route table of create_application, in registration order.
Routes ==
    <<Route("GET", PatternRoot, "render_server_time"),
      Route("GET", PatternContinentCountryCity, "render_continent_country_city_time"),
      Route("GET", PatternContinentCity, "render_continent_city_time"),
      Route("GET", PatternTimezone, "render_timezone_time"),
      Route("POST", PatternApiTime, "get_timezone_time"),
      Route("POST", PatternApiDate, "get_timezone_date"),
      Route("POST", PatternApiDateDiff, "get_dates_diff")>>

-----------------------------------------------------------------------------
(* Time zones, the clock, date parsing and formatting.                     *)

ZoneUTC ==
    <<"U", "T", "C">>
ZoneMoscow ==
    <<"E", "u", "r", "o", "p", "e", "/", "M", "o", "s", "c", "o", "w">>
ZoneNovosibirsk ==
    <<"A", "s", "i", "a", "/", "N", "o", "v", "o", "s", "i", "b", "i", "r", "s", "k">>
ZoneBuenosAires ==
    <<"A", "m", "e", "r", "i", "c", "a", "/", "A", "r", "g", "e", "n", "t", "i", "n", "a", "/", "B", "u", "e", "n", "o", "s", "_", "A", "i", "r", "e", "s">>
ZoneUnknown ==
    <<"E", "u", "r", "o", "p", "e", "/", "E", "u", "r", "o", "p", "e">>

DateDotted ==
    <<"1", "2", ".", "2", "0", ".", "2", "0", "2", "4", " ", "0", "0", ":", "1", "9", ":", "0", "0">>
DateAmPm ==
    <<"1", "2", ":", "1", "9", "a", "m", " ", "2", "0", "2", "4", "-", "1", "2", "-", "2", "0">>
DateDottedLater ==
    <<"1", "2", ".", "2", "0", ".", "2", "0", "2", "4", " ", "0", "0", ":", "1", "9", ":", "3", "0">>
DateBadAmPm ==
    <<"1", "2", ":", "1", "9", "a", " ", "2", "0", "2", "4", "-", "1", "2", "-", "2", "0">>

\* A key zoneinfo accepts as a normalized relative path: not empty, no "/" at
\* either end and no "//".  (No key of the model has a "." component.)
NormalizedKey(key) ==
    /\ Len(key) > 0
    /\ key[1] # "/"
    /\ key[Len(key)] # "/"
    /\ \A i \in 1..(Len(key) - 1) : ~(key[i] = "/" /\ key[i + 1] = "/")

\* zoneinfo.ZoneInfo(key): the zone's UTC offset in seconds; ValueError for
\* a key that is no normalized relative path, ZoneInfoNotFoundError for one
\* that names no zone.  The zones of the model keep one offset all year.
ZoneInfo(key) ==
    CASE ~NormalizedKey(key) -> Raise(PyException("ValueError"))
      [] key = ZoneUTC -> Ok(0)
      [] key = ZoneMoscow -> Ok(3 * 3600)
      [] key = ZoneNovosibirsk -> Ok(7 * 3600)
      [] key = ZoneBuenosAires -> Ok(0 - 3 * 3600)
      [] OTHER -> Raise(PyException("ZoneInfoNotFoundError"))

\* datetime.strptime(date, format): the naive timestamp, or ValueError.
Strptime(date, format) ==
    CASE format = "%I:%M%p %Y-%m-%d" /\ date = DateAmPm -> Ok(19 * 60)
      [] format = "%m.%d.%Y %H:%M:%S" /\ date = DateDotted -> Ok(19 * 60)
      [] format = "%m.%d.%Y %H:%M:%S" /\ date = DateDottedLater -> Ok(19 * 60 + 30)
      [] OTHER -> Raise(PyException("ValueError"))

\* dt.strftime(OUTPUT_DATETIME_FORMAT) of the wall-clock time t: its day, HH, MM, SS.
Strftime(t) ==
    <<"datetime", t \div 86400, (t % 86400) \div 3600, (t % 3600) \div 60, t % 60>>

\* str(dt.date()).
DateStr(t) ==
    <<"date", t \div 86400>>

\* str(timedelta): "H:MM:SS", preceded by "D day(s), " when the normalised
\* day count is not zero (a negative difference has negative days).
TimedeltaStr(d) ==
    LET days == d \div 86400
        seconds == d % 86400
        hms == <<seconds \div 3600, (seconds % 3600) \div 60, seconds % 60>>
    IN  IF days # 0 THEN <<"timedelta", days, "day(s)">> \o hms
        ELSE <<"timedelta">> \o hms

-----------------------------------------------------------------------------
(* The request models and model_from_json.                                 *)

Field(name, type) ==
    [type |-> type, name |-> name]

\* cls.__annotations__ of the three ApplicationModel subclasses, in
\* declaration order.
Annotations(cls) ==
    CASE cls = "TimezoneModel" -> <<Field("tz", "str | None")>>
      [] cls = "DateModel" -> <<Field("date", "str"), Field("tz", "str | None")>>
      [] cls = "DatesDiffModel" -> <<Field("start", "DateModel"), Field("end", "DateModel")>>

ModelClasses ==
    {"TimezoneModel", "DateModel", "DatesDiffModel"}

FieldNames(cls) ==
    {Annotations(cls)[i].name : i \in 1..Len(Annotations(cls))}

\* model.__annotations__[key]
FieldType(cls, key) ==
    LET i == CHOOSE i \in 1..Len(Annotations(cls)) : Annotations(cls)[i].name = key
    IN  Annotations(cls)[i].type

\* get_origin(attr_type) is UnionType and NoneType in get_args(attr_type).
IsOptional(attr_type) ==
    attr_type = "str | None"

NoAttrs ==
    [n \in {} |-> None]

\* An instance of a model class with the attributes set so far.
Model(cls, attrs) ==
    [t |-> "model", cls |-> cls, attrs |-> attrs]

\* model_from_json(cls, json).  cls is a model class or, in a nested call, the
\* annotation of the field a mapping was supplied for: cls.__new__(cls) raises
\* TypeError for the union `str | None` and makes an empty str for `str`, which
\* has no __annotations__; json.items() raises AttributeError unless json is a
\* mapping.
RECURSIVE ModelFromJson(_, _)
RECURSIVE BindItems(_, _, _, _)
RECURSIVE Complete(_, _, _)

\* Faulty variant of BindItems: an undeclared key is skipped instead of rejected.
RECURSIVE BindItemsSkipUndeclared(_, _, _, _)
BindItemsSkipUndeclared(cls, items, i, attrs) ==
    IF i > Len(items) THEN Ok(attrs)
    ELSE LET key == items[i].k
             value == items[i].v
         IN  IF cls = "str" THEN Raise(PyException("AttributeError"))
             ELSE IF key \notin FieldNames(cls) THEN
                 BindItemsSkipUndeclared(cls, items, i + 1, attrs)
             ELSE IF value.t = "str" THEN
                 BindItemsSkipUndeclared(cls, items, i + 1, (key :> value) @@ attrs)
             ELSE IF value.t = "obj" THEN
                 LET nested == ModelFromJson(FieldType(cls, key), value)
                 IN  IF ~nested.ok THEN nested
                     ELSE BindItemsSkipUndeclared(cls, items, i + 1,
                                                  (key :> nested.val) @@ attrs)
             ELSE IF value.t = "list" THEN
                 Raise(ApplicationError(<<"list in json is not supported: ", key>>))
             ELSE Raise(ApplicationError(<<"unexpected type of json param: ", key>>))

\* Faulty variant of Complete: a single pass that defaults every optional field,
\* whether or not the input supplied it.
RECURSIVE CompleteDefaultsSupplied(_, _, _)
CompleteDefaultsSupplied(cls, i, attrs) ==
    IF cls = "str" THEN Raise(PyException("AttributeError"))
    ELSE IF i > Len(Annotations(cls)) THEN Ok(Model(cls, attrs))
    ELSE LET key == Annotations(cls)[i].name
             attr_type == Annotations(cls)[i].type
         IN  IF IsOptional(attr_type) THEN
                 CompleteDefaultsSupplied(cls, i + 1, (key :> None) @@ attrs)
             ELSE IF key \in DOMAIN attrs /\ attrs[key].t # "none" THEN
                 CompleteDefaultsSupplied(cls, i + 1, attrs)
             ELSE Raise(ApplicationError(<<"missing required param: ", key>>))

ModelFromJson(cls, json) ==
    IF cls = "str | None" THEN Raise(PyException("TypeError"))
    ELSE IF json.t # "obj" THEN Raise(PyException("AttributeError"))
    ELSE LET items == BindItems(cls, json.kv, 1, NoAttrs)
         IN  IF ~items.ok THEN items ELSE Complete(cls, 1, items.val)

\* The loop over json.items(), from item i on.
BindItems(cls, items, i, attrs) ==
    IF i > Len(items) THEN Ok(attrs)
    ELSE LET key == items[i].k
             value == items[i].v
         IN  IF cls = "str" THEN Raise(PyException("AttributeError"))
             ELSE IF key \notin FieldNames(cls) THEN
                 Raise(ApplicationError(<<"unexpected param provided: ", key>>))
             ELSE IF value.t = "str" THEN
                 BindItems(cls, items, i + 1, (key :> value) @@ attrs)
             ELSE IF value.t = "obj" THEN
                 LET nested == ModelFromJson(FieldType(cls, key), value)
                 IN  IF ~nested.ok THEN nested
                     ELSE BindItems(cls, items, i + 1, (key :> nested.val) @@ attrs)
             ELSE IF value.t = "list" THEN
                 Raise(ApplicationError(<<"list in json is not supported: ", key>>))
             ELSE Raise(ApplicationError(<<"unexpected type of json param: ", key>>))

\* The loop over cls.__annotations__, from declared field i on.
Complete(cls, i, attrs) ==
    IF cls = "str" THEN Raise(PyException("AttributeError"))
    ELSE IF i > Len(Annotations(cls)) THEN Ok(Model(cls, attrs))
    ELSE LET key == Annotations(cls)[i].name
             attr_type == Annotations(cls)[i].type
         IN  IF key \in DOMAIN attrs /\ attrs[key].t # "none" THEN
                 Complete(cls, i + 1, attrs)
             ELSE IF IsOptional(attr_type) THEN
                 Complete(cls, i + 1, (key :> None) @@ attrs)
             ELSE Raise(ApplicationError(<<"missing required param: ", key>>))

\* TimezoneModel.get_parsed_tz: the zone of attribute tz, UTC when it is None.
GetParsedTz(tz) ==
    IF tz.t = "none" THEN ZoneInfo(ZoneUTC)
    ELSE IF ZoneInfo(tz.s).ok THEN ZoneInfo(tz.s)
    ELSE Raise(ApplicationError(<<"invalid timezone">>))

\* TimezoneModel.get_datetime: datetime.now(tz) as wall-clock time in the zone.
GetDatetime(tz, clock) ==
    IF GetParsedTz(tz).ok THEN Ok(clock + GetParsedTz(tz).val)
    ELSE Raise(ApplicationError(<<"invalid timezone">>))

\* TimezoneModel.get_str_datetime.
GetStrDatetime(tz, clock) ==
    IF GetDatetime(tz, clock).ok THEN Ok(Strftime(GetDatetime(tz, clock).val))
    ELSE GetDatetime(tz, clock)

supported_datime_formats ==
    <<"%I:%M%p %Y-%m-%d", "%m.%d.%Y %H:%M:%S">>

\* The loop of DateModel.get_parsed_date: the first format that parses.
RECURSIVE ParseWithFormats(_, _)
ParseWithFormats(date, i) ==
    IF i > Len(supported_datime_formats) THEN
        Raise(ApplicationError(<<"invalid datetime format: ", date>>))
    ELSE IF Strptime(date, supported_datime_formats[i]).ok THEN
        Strptime(date, supported_datime_formats[i])
    ELSE ParseWithFormats(date, i + 1)

\* DateModel.get_parsed_date: the naive timestamp and the zone attached to it.
GetParsedDate(model) ==
    LET dt == ParseWithFormats(model.attrs["date"].s, 1)
        timezone == GetParsedTz(model.attrs["tz"])
    IN  IF ~dt.ok THEN dt
        ELSE IF ~timezone.ok THEN timezone
        ELSE Ok([naive |-> dt.val, utcoffset |-> timezone.val])

\* DateModel.get_date_in_utc.  An attribute that holds a str has no such method.
GetDateInUtc(model) ==
    IF model.t # "model" THEN Raise(PyException("AttributeError"))
    ELSE IF ~GetParsedDate(model).ok THEN GetParsedDate(model)
    ELSE Ok(GetParsedDate(model).val.naive - GetParsedDate(model).val.utcoffset)

\* DatesDiffModel.get_diff: start minus end, start evaluated first.
GetDiff(model) ==
    LET start == GetDateInUtc(model.attrs["start"])
        end == GetDateInUtc(model.attrs["end"])
    IN  IF ~start.ok THEN start
        ELSE IF ~end.ok THEN end
        ELSE Ok(start.val - end.val)

-----------------------------------------------------------------------------
(* The handlers.  Each takes the Request, its path parameters and the      *)
(* clock, and returns a Response or raises.                                *)

\* render_server_time
render_server_time(req, params, clock) ==
    Ok(ResponseHtml(Strftime(clock), 200))

\* render_timezone_time
render_timezone_time(req, params, clock) ==
    LET timezone == GetPathParam(params, "timezone")
    IN  IF ~timezone.ok THEN timezone
        ELSE LET datetime == GetStrDatetime(Str(timezone.val), clock)
             IN  IF ~datetime.ok THEN datetime
                 ELSE Ok(ResponseHtml(datetime.val, 200))

\* render_continent_city_time
render_continent_city_time(req, params, clock) ==
    LET continent == GetPathParam(params, "continent")
        city == GetPathParam(params, "city")
    IN  IF ~continent.ok THEN continent
        ELSE IF ~city.ok THEN city
        ELSE LET datetime ==
                     GetStrDatetime(Str(continent.val \o <<"/">> \o city.val), clock)
             IN  IF ~datetime.ok THEN datetime
                 ELSE Ok(ResponseHtml(datetime.val, 200))

\* render_continent_country_city_time
render_continent_country_city_time(req, params, clock) ==
    LET continent == GetPathParam(params, "continent")
        country == GetPathParam(params, "country")
        city == GetPathParam(params, "city")
    IN  IF ~continent.ok THEN continent
        ELSE IF ~country.ok THEN country
        ELSE IF ~city.ok THEN city
        ELSE LET datetime ==
                     GetStrDatetime(Str(continent.val \o <<"/">> \o country.val
                                        \o <<"/">> \o city.val), clock)
             IN  IF ~datetime.ok THEN datetime
                 ELSE Ok(ResponseHtml(datetime.val, 200))

\* model_from_json(cls, request.get_body()): the binder is not called when
\* get_body raised.
ModelFromBody(cls, body) ==
    IF ~body.ok THEN body ELSE ModelFromJson(cls, body.val)

\* get_timezone_time
get_timezone_time(req, params, clock) ==
    LET timezone == ModelFromBody("TimezoneModel", GetBody(req))
    IN  IF ~timezone.ok THEN timezone
        ELSE LET datetime == GetStrDatetime(timezone.val.attrs["tz"], clock)
             IN  IF ~datetime.ok THEN datetime
                 ELSE Ok(ResponseJson(datetime.val, 200))

\* get_timezone_date
get_timezone_date(req, params, clock) ==
    LET timezone == ModelFromBody("TimezoneModel", GetBody(req))
    IN  IF ~timezone.ok THEN timezone
        ELSE LET datetime == GetDatetime(timezone.val.attrs["tz"], clock)
             IN  IF ~datetime.ok THEN datetime
                 ELSE Ok(ResponseJson(DateStr(datetime.val), 200))

\* get_dates_diff
get_dates_diff(req, params, clock) ==
    LET dates_diff == ModelFromBody("DatesDiffModel", GetBody(req))
    IN  IF ~dates_diff.ok THEN dates_diff
        ELSE LET diff == GetDiff(dates_diff.val)
             IN  IF ~diff.ok THEN diff
                 ELSE Ok(ResponseJson(TimedeltaStr(diff.val), 200))

\* route.handler(request)
CallHandler(handler, req, params, clock) ==
    CASE handler = "render_server_time" -> render_server_time(req, params, clock)
      [] handler = "render_continent_country_city_time" ->
             render_continent_country_city_time(req, params, clock)
      [] handler = "render_continent_city_time" ->
             render_continent_city_time(req, params, clock)
      [] handler = "render_timezone_time" -> render_timezone_time(req, params, clock)
      [] handler = "get_timezone_time" -> get_timezone_time(req, params, clock)
      [] handler = "get_timezone_date" -> get_timezone_date(req, params, clock)
      [] handler = "get_dates_diff" -> get_dates_diff(req, params, clock)

-----------------------------------------------------------------------------
(* Router.handle_request.                                                  *)

\* A value that is present, as opposed to None.
Some(v) ==
    [t |-> "some", v |-> v]

\* What one call of Router.handle_request did: the handlers it called and
\* what the call gave, the path parameters it left on the Request, the last
\* value of its local `response`, the Response it returned and the exception
\* it raised.
Handled(handlers, result, params, resp, ret, exc) ==
    [invoked |-> handlers, response |-> resp, returned |-> ret, raised |-> exc,
     params |-> params, result |-> result]

\* The try/except around route.handler(request) and what follows it.
HandlerOutcome(handler, params, result) ==
    IF result.ok THEN
        Handled(<<handler>>, Some(result), params, Some(result.val),
                Some(result.val), None)
    ELSE IF result.exc.type = "ApplicationError" THEN
        Handled(<<handler>>, Some(result), params, Some(GetResponse(result.exc)),
                Some(GetResponse(result.exc)), None)
    ELSE
        Handled(<<handler>>, Some(result), params,
                Some(ResponsePlain("server error", 500)), None, Some(result.exc))

\* Faulty variant of HandleFrom: the method of a route is not compared.
RECURSIVE HandleFromAnyMethod(_, _, _, _)
HandleFromAnyMethod(req, params, i, clock) ==
    IF i > Len(Routes) THEN
        Handled(<<>>, None, params, None, Some(ResponsePlain("not found", 404)), None)
    ELSE LET match == ReMatch(Routes[i].path_regex, GetPath(req))
         IN  IF ~match.matched THEN HandleFromAnyMethod(req, params, i + 1, clock)
             ELSE HandlerOutcome(Routes[i].handler, Params(match.groups),
                                 CallHandler(Routes[i].handler, req,
                                             Params(match.groups), clock))

\* Faulty variant of HandleFrom: the fallback Response is built without its status
\* code, so it carries the default 200.
RECURSIVE HandleFromNotFoundDefaultCode(_, _, _, _)
HandleFromNotFoundDefaultCode(req, params, i, clock) ==
    IF i > Len(Routes) THEN
        Handled(<<>>, None, params, None, Some(ResponsePlain("not found", 200)), None)
    ELSE IF Routes[i].method # GetMethod(req) THEN
        HandleFromNotFoundDefaultCode(req, params, i + 1, clock)
    ELSE LET match == ReMatch(Routes[i].path_regex, GetPath(req))
         IN  IF ~match.matched THEN HandleFromNotFoundDefaultCode(req, params, i + 1, clock)
             ELSE HandlerOutcome(Routes[i].handler, Params(match.groups),
                                 CallHandler(Routes[i].handler, req,
                                             Params(match.groups), clock))

\* The loop over self.__routes from route i on; params are the path
\* parameters of the Request when the loop gets there.
RECURSIVE HandleFrom(_, _, _, _)
HandleFrom(req, params, i, clock) ==
    IF i > Len(Routes) THEN
        Handled(<<>>, None, params, None, Some(ResponsePlain("not found", 404)), None)
    ELSE IF Routes[i].method # GetMethod(req) THEN HandleFrom(req, params, i + 1, clock)
    ELSE LET match == ReMatch(Routes[i].path_regex, GetPath(req))
         IN  IF ~match.matched THEN HandleFrom(req, params, i + 1, clock)
             ELSE HandlerOutcome(Routes[i].handler, Params(match.groups),
                                 CallHandler(Routes[i].handler, req,
                                             Params(match.groups), clock))

\* Router.handle_request on a Request whose path parameters are `params`.
HandleRequest(req, params, clock) ==
    HandleFrom(req, params, 1, clock)

-----------------------------------------------------------------------------
(* The requests the transport delivers.                                    *)

PathRoot ==
    <<"/">>
PathRootNewline ==
    <<"/", "\n">>
PathEmpty ==
    <<>>
PathUTC ==
    <<"/", "U", "T", "C">>
PathUTCNewline ==
    <<"/", "U", "T", "C", "\n">>
PathTwoLetters ==
    <<"/", "a", "b">>
PathAsd ==
    <<"/", "a", "s", "d">>
PathDigits ==
    <<"/", "U", "2", "C">>
PathMoscow ==
    <<"/", "E", "u", "r", "o", "p", "e", "/", "M", "o", "s", "c", "o", "w">>
PathNovosibirsk ==
    <<"/", "A", "s", "i", "a", "/", "N", "o", "v", "o", "s", "i", "b", "i", "r", "s", "k">>
PathEuropeEurope ==
    <<"/", "E", "u", "r", "o", "p", "e", "/", "E", "u", "r", "o", "p", "e">>
PathBuenosAires ==
    <<"/", "A", "m", "e", "r", "i", "c", "a", "/", "A", "r", "g", "e", "n", "t", "i", "n", "a", "/", "B", "u", "e", "n", "o", "s", "_", "A", "i", "r", "e", "s">>
PathEuropeEuropeAmerica ==
    <<"/", "E", "u", "r", "o", "p", "e", "/", "E", "u", "r", "o", "p", "e", "/", "A", "m", "e", "r", "i", "c", "a">>
PathFourSegments ==
    <<"/", "a", "/", "b", "/", "c", "/", "d">>
PathTrailingSlash ==
    <<"/", "U", "T", "C", "/">>
PathApiTime ==
    <<"/", "a", "p", "i", "/", "v", "1", "/", "t", "i", "m", "e">>
PathApiDate ==
    <<"/", "a", "p", "i", "/", "v", "1", "/", "d", "a", "t", "e">>
PathApiDateDiff ==
    <<"/", "a", "p", "i", "/", "v", "1", "/", "d", "a", "t", "e", "d", "i", "f", "f">>
PathApiLetters ==
    <<"/", "a", "p", "i", "/", "v", "x", "/", "d", "a", "t", "e">>
PathApiTimeSuffix ==
    <<"/", "a", "p", "i", "/", "v", "1", "/", "t", "i", "m", "e", "x">>

Paths ==
    {PathRoot, PathRootNewline, PathEmpty, PathUTC, PathUTCNewline, PathTwoLetters,
     PathAsd, PathDigits, PathMoscow, PathNovosibirsk, PathEuropeEurope,
     PathBuenosAires, PathEuropeEuropeAmerica, PathFourSegments, PathTrailingSlash,
     PathApiTime, PathApiDate, PathApiDateDiff, PathApiLetters, PathApiTimeSuffix}

Methods ==
    {"GET", "POST", "PUT"}

\* The JSON bodies of DateModel shape: each date string with each zone, and
\* with the zone left out.
DateObjects ==
    {Obj(<<Pair("date", Str(d))>>) : d \in {DateDotted, DateAmPm, DateDottedLater, DateBadAmPm}}
    \cup {Obj(<<Pair("date", Str(d)), Pair("tz", Str(z))>>) :
            d \in {DateDotted, DateAmPm, DateDottedLater, DateBadAmPm},
            z \in {ZoneMoscow, ZoneNovosibirsk, ZoneUnknown}}

\* Decoded JSON payloads.
JsonBodies ==
    {Str(<<>>), Str(ZoneUTC), List(<<>>), Null, Obj(<<>>),
     Obj(<<Pair("tz", Null)>>),
     Obj(<<Pair("tz", List(<<Str(ZoneUTC)>>))>>),
     Obj(<<Pair("tz", Obj(<<>>))>>),
     Obj(<<Pair("bogus", Str(ZoneUTC))>>),
     Obj(<<Pair("tz", Str(ZoneUTC)), Pair("bogus", Str(ZoneUTC))>>),
     Obj(<<Pair("start", Str(DateDotted)), Pair("end", Str(DateAmPm))>>),
     Obj(<<Pair("start", Obj(<<Pair("date", Str(DateDotted))>>))>>)}
    \cup {Obj(<<Pair("tz", Str(z))>>) :
            z \in {ZoneUTC, ZoneMoscow, ZoneBuenosAires, ZoneUnknown, <<>>}}
    \cup {Obj(<<Pair("start", s), Pair("end", e)>>) : s \in DateObjects, e \in DateObjects}

\* A CONTENT_LENGTH no payload of the model exceeds.
ContentLengthFull ==
    Str(<<"9", "9", "9">>)

\* The values of CONTENT_LENGTH: the key absent, the empty str, zero, a
\* negative number, a signed and a plain length, and two strs that are no
\* integer.
ContentLengths ==
    {None, Str(<<>>), Str(<<"0">>), Str(<<"-", "5">>), Str(<<"+", "9", "9", "9">>),
     ContentLengthFull, Str(<<"a", "b", "c">>), Str(<<"1", "e", "1">>)}

\* The raw payload, sent with its length: none, bytes that json.loads
\* rejects, or a JSON document.
Bodies ==
    {Input("empty", Null, ContentLengthFull), Input("malformed", Null, ContentLengthFull)}
    \cup {Input("json", v, ContentLengthFull) : v \in JsonBodies}

\* Request(environ)
Request(method, path, body) ==
    [body |-> body, method |-> method, path |-> path]

\* Payloads sent along with every method and path.
BasicBodies ==
    {Input("empty", Null, ContentLengthFull), Input("malformed", Null, ContentLengthFull),
     Input("json", Obj(<<Pair("tz", Str(ZoneMoscow))>>), ContentLengthFull)}

\* One JSON payload under every value of CONTENT_LENGTH.
LengthBodies ==
    {Input("json", Obj(<<Pair("tz", Str(ZoneMoscow))>>), c) : c \in ContentLengths}

\* The requests of the model: every method and path with the basic payloads,
\* every payload POSTed to the three API paths, whose handlers read it, and
\* every CONTENT_LENGTH on these paths and on two whose handlers do not.
Requests ==
    {Request(m, p, b) : m \in Methods, p \in Paths, b \in BasicBodies}
    \cup {Request("POST", p, b) : p \in {PathApiTime, PathApiDate, PathApiDateDiff},
                                  b \in Bodies}
    \cup {Request(m, p, b) : m \in {"GET", "POST"},
                             p \in {PathRoot, PathUTC, PathApiTime, PathApiDate,
                                     PathApiDateDiff},
                             b \in LengthBodies}

NoRequest ==
    Request("", <<>>, Input("empty", Null, None))

\* Names a handler may ask get_path_param for.
ParamNames ==
    {"timezone", "continent", "country", "city"}

-----------------------------------------------------------------------------
(* The server: one request at a time through the WSGI callable.            *)

Init ==
    /\ pc = "idle"
    /\ request = NoRequest
    /\ pathParams = Unset
    /\ invoked = <<>>
    /\ handlerResult = None
    /\ response = None
    /\ returned = None
    /\ raised = None
    /\ sent = None
    /\ now = 0
    /\ paramResult = None
    /\ bindCls = "TimezoneModel"
    /\ bindJson = Null
    /\ bindResult = None

\* create_application.handle_request: request = Request(environ).
Receive(req) ==
    /\ pc = "idle"
    /\ pc' = "received"
    /\ request' = req
    /\ pathParams' = Unset
    /\ UNCHANGED <<invoked, handlerResult, response, returned, raised, sent, now, paramResult,
                   bindCls, bindJson, bindResult>>

\* create_application.handle_request: response = router.handle_request(request)
\* and, when that returns, response.send_response(response_writer).
Dispatch ==
    /\ pc = "received"
    /\ LET h == HandleRequest(request, pathParams, now)
       IN  /\ invoked' = h.invoked
           /\ handlerResult' = h.result
           /\ pathParams' = h.params
           /\ response' = h.response
           /\ returned' = h.returned
           /\ raised' = h.raised
           /\ sent' = IF h.returned.t = "some" THEN Some(SendResponse(h.returned.v))
                      ELSE None
    /\ pc' = "done"
    /\ UNCHANGED <<request, now, paramResult, bindCls, bindJson, bindResult>>

\* The transport is done with the request and waits for the next one.
Finish ==
    /\ pc = "done"
    /\ pc' = "idle"
    /\ request' = NoRequest
    /\ pathParams' = Unset
    /\ invoked' = <<>>
    /\ handlerResult' = None
    /\ response' = None
    /\ returned' = None
    /\ raised' = None
    /\ sent' = None
    /\ UNCHANGED <<now, paramResult, bindCls, bindJson, bindResult>>

\* Time passes.
Tick ==
    /\ now < MaxClock
    /\ now' = now + 1
    /\ UNCHANGED <<pc, request, pathParams, invoked, handlerResult, response, returned, raised,
                   sent, paramResult, bindCls, bindJson, bindResult>>

Next ==
    \/ \E req \in Requests : Receive(req)
    \/ Dispatch
    \/ Finish
    \/ Tick

Spec == Init /\ [][Next]_vars

-----------------------------------------------------------------------------
(* The Request object on its own: its constructor, set_path_params and     *)
(* get_path_param called in any order.                                     *)

\* Request(environ): no path parameters yet.
NewRequest(req) ==
    /\ request' = req
    /\ pathParams' = Unset
    /\ paramResult' = None
    /\ UNCHANGED <<pc, invoked, handlerResult, response, returned, raised, sent, now,
                   bindCls, bindJson, bindResult>>

\* request.set_path_params(match.groupdict()) for a route whose pattern
\* matches the path, as in Router.handle_request.
SetPathParams ==
    /\ \E i \in 1..Len(Routes) :
           /\ ReMatch(Routes[i].path_regex, GetPath(request)).matched
           /\ pathParams' = Params(ReMatch(Routes[i].path_regex, GetPath(request)).groups)
    /\ UNCHANGED <<pc, request, invoked, handlerResult, response, returned, raised, sent, now,
                   paramResult, bindCls, bindJson, bindResult>>

\* request.set_path_params(): the default argument.
SetPathParamsDefault ==
    /\ pathParams' = Params(EmptyParams)
    /\ UNCHANGED <<pc, request, invoked, handlerResult, response, returned, raised, sent, now,
                   paramResult, bindCls, bindJson, bindResult>>

\* request.get_path_param(param_key)
CallGetPathParam(param_key) ==
    /\ paramResult' = Some([params |-> pathParams, key |-> param_key,
                            result |-> GetPathParam(pathParams, param_key)])
    /\ UNCHANGED <<pc, request, pathParams, invoked, handlerResult, response, returned, raised,
                   sent, now, bindCls, bindJson, bindResult>>

NextRequest ==
    \/ \E m \in Methods, p \in Paths :
           NewRequest(Request(m, p, Input("empty", Null, None)))
    \/ SetPathParams
    \/ SetPathParamsDefault
    \/ \E param_key \in ParamNames : CallGetPathParam(param_key)

SpecRequest == Init /\ [][NextRequest]_vars

-----------------------------------------------------------------------------
(* model_from_json on its own, applied to generated JSON values.           *)

\* The JSON values that are neither objects nor lists of lists: a string, a
\* list, null.
Leaves ==
    {Str(ZoneUTC), List(<<Str(ZoneUTC)>>), Null}

\* Keys tried on an object supplied for `type`: the declared fields of a model
\* class and one undeclared key; for any other type the keys are never looked
\* up in a declaration.
KeysFor(type) ==
    IF type \in ModelClasses THEN FieldNames(type) \cup {"bogus"} ELSE {"bogus"}

\* The declared type of key k of `type`, "" when there is none.
TypeAt(type, k) ==
    IF type \in ModelClasses /\ k \in FieldNames(type) THEN FieldType(type, k) ELSE ""

\* Number of key/value pairs of a JSON value, over all nesting levels.
RECURSIVE Size(_)
RECURSIVE SizeOfPairs(_, _)
Size(v) ==
    IF v.t = "obj" THEN SizeOfPairs(v.kv, 1) ELSE 0

SizeOfPairs(kv, i) ==
    IF i > Len(kv) THEN 0 ELSE 1 + Size(kv[i].v) + SizeOfPairs(kv, i + 1)

KeysOf(kv) ==
    {kv[i].k : i \in 1..Len(kv)}

\* The pair lists (objects) with at most n pairs in all, keys distinct and
\* drawn from KeysFor(type), values leaves or objects for the key's type.
RECURSIVE GenPairs(_, _)
GenPairs(type, n) ==
    IF n = 0 THEN {<<>>}
    ELSE {<<>>} \cup UNION {
             UNION { { <<Pair(k, v)>> \o rest :
                         rest \in {r \in GenPairs(type, n - 1 - Size(v)) : k \notin KeysOf(r)} } :
                     v \in Leaves \cup {Obj(kv) : kv \in GenPairs(TypeAt(type, k), n - 1)} } :
             k \in KeysFor(type) }

\* The inputs of the binder for target type cls.
BindInputs(cls) ==
    Leaves \cup {Obj(kv) : kv \in GenPairs(cls, MaxPairs)}

InitBind ==
    /\ pc = "idle"
    /\ request = NoRequest
    /\ pathParams = Unset
    /\ invoked = <<>>
    /\ handlerResult = None
    /\ response = None
    /\ returned = None
    /\ raised = None
    /\ sent = None
    /\ now = 0
    /\ paramResult = None
    /\ bindCls \in ModelClasses
    /\ bindJson \in BindInputs(bindCls)
    /\ bindResult = None

\* model_from_json(cls, json)
Bind ==
    /\ bindResult = None
    /\ bindResult' = Some(ModelFromJson(bindCls, bindJson))
    /\ UNCHANGED <<pc, request, pathParams, invoked, handlerResult, response, returned, raised,
                   sent, now, paramResult, bindCls, bindJson>>

NextBind ==
    Bind

SpecBind == InitBind /\ [][NextBind]_vars

-----------------------------------------------------------------------------
(* Properties of the router and the dispatcher (Spec).                     *)

Min(S) ==
    CHOOSE x \in S : \A y \in S : x <= y

\* Indices of the routes whose method is the request's and whose pattern
\* matches its path.
MatchingRoutes(req) ==
    {i \in 1..Len(Routes) :
        Routes[i].method = req.method /\ ReMatch(Routes[i].path_regex, req.path).matched}

HandlerRaised ==
    handlerResult.t = "some" /\ ~handlerResult.v.ok

HandlerRaisedApplicationError ==
    HandlerRaised /\ handlerResult.v.exc.type = "ApplicationError"

\* C1: once a request has been handled, the handlers called are exactly the
\* handler of the earliest-registered route whose method and pattern match,
\* called once, or none when no route matches; this is so whether the
\* handler returned or raised.
C1_FirstMatchInvokedOnce ==
    pc = "done" =>
        IF MatchingRoutes(request) = {} THEN invoked = <<>>
        ELSE invoked = <<Routes[Min(MatchingRoutes(request))].handler>>

\* C1 witness: the last route matched, after all earlier ones were passed
\* over, and its handler raised.
C1_Witness ==
    /\ pc = "done"
    /\ Min(MatchingRoutes(request) \cup {Len(Routes)}) = Len(Routes)
    /\ invoked = <<"get_dates_diff">>
    /\ HandlerRaised

\* C2: a request that matches no route, also one whose path is registered
\* under another method only, is answered 404 'not found' and no handler is
\* called.
C2_UnmatchedIsNotFound ==
    (pc = "done" /\ MatchingRoutes(request) = {}) =>
        /\ invoked = <<>>
        /\ handlerResult = None
        /\ raised = None
        /\ returned.t = "some"
        /\ returned.v.code = 404
        /\ returned.v.body.fmt = "text"
        /\ returned.v.body.val = <<"not found">>
        /\ sent = Some(SendResponse(returned.v))

\* C2 witness: GET on a path registered for POST only was answered 404.
C2_Witness ==
    /\ pc = "done"
    /\ request.method = "GET"
    /\ request.path = PathApiTime
    /\ returned.t = "some"
    /\ returned.v.code = 404

\* C3: when the handler raised ApplicationError(m, c), handle_request returns
\* normally the Response with status c and body {"reason": m}, and c is 400
\* for every validation failure the handlers raise.
C3_StructuredErrorAnswered ==
    HandlerRaisedApplicationError =>
        /\ raised = None
        /\ returned.t = "some"
        /\ returned.v.code = handlerResult.v.exc.code
        /\ handlerResult.v.exc.code = 400
        /\ returned.v.body =
               [fmt |-> "json", key |-> "reason", val |-> handlerResult.v.exc.message]
        /\ sent = Some(SendResponse(returned.v))

\* C3 witness: an unparsable date was answered 400.
C3_Witness ==
    /\ pc = "done"
    /\ HandlerRaisedApplicationError
    /\ handlerResult.v.exc.message = <<"invalid datetime format: ", DateBadAmPm>>
    /\ returned.t = "some"
    /\ returned.v.code = 400

\* C4: when the handler raised anything but ApplicationError, handle_request
\* both gives its caller the Response 500 'server error' and propagates the
\* exception.
C4_RespondAndEscalate ==
    (HandlerRaised /\ handlerResult.v.exc.type # "ApplicationError") =>
        /\ raised = Some(handlerResult.v.exc)
        /\ returned.t = "some"
        /\ returned.v.code = 500
        /\ returned.v.body.val = <<"server error">>

\* The value of key k in the pairs kv.
ValueOf(kv, k) ==
    kv[CHOOSE i \in 1..Len(kv) : kv[i].k = k].v

\* The request with the start and end of its datediff body exchanged.
SwapStartEnd(req) ==
    [req EXCEPT !.body.value =
        Obj(<<Pair("start", ValueOf(req.body.value.kv, "end")),
              Pair("end", ValueOf(req.body.value.kv, "start"))>>)]

\* The text of a timedelta is negative when it carries a negative day count.
NonNegativeTimedelta(val) ==
    Len(val) = 4 \/ val[2] > 0

\* C10: a successful datediff reports a non-negative difference, the same
\* one when start and end are exchanged.
C10_AbsoluteDifference ==
    (pc = "done" /\ invoked = <<"get_dates_diff">> /\ handlerResult.t = "some"
        /\ handlerResult.v.ok) =>
        LET swapped == get_dates_diff(SwapStartEnd(request), pathParams, now)
        IN  /\ NonNegativeTimedelta(returned.v.body.val)
            /\ swapped.ok
            /\ swapped.val.body.val = returned.v.body.val

-----------------------------------------------------------------------------
(* Properties of Request.get_path_param (SpecRequest).                     *)

\* C9: get_path_param returns the captured string of a bound name, and fails
\* with the structured error of status 400 for a name that was never bound,
\* be it that set_path_params never ran or that it set no such name.
C9_PathParamOrStructuredError ==
    paramResult.t = "some" =>
        LET call == paramResult.v
        IN  IF call.params.t = "set" /\ call.key \in DOMAIN call.params.params
            THEN call.result = Ok(call.params.params[call.key])
            ELSE IsApplicationError(call.result) /\ call.result.exc.code = 400

-----------------------------------------------------------------------------
(* Properties of model_from_json (SpecBind).                               *)

Bound ==
    bindResult.t = "some"

\* The pair binds on its own: a declared key with a string, or with a mapping
\* that binds to the declared type of the key.
PairBinds(cls, pair) ==
    /\ pair.k \in FieldNames(cls)
    /\ \/ pair.v.t = "str"
       \/ pair.v.t = "obj" /\ ModelFromJson(FieldType(cls, pair.k), pair.v).ok

UnexpectedParam(key) ==
    Raise(ApplicationErrorWith(<<"unexpected param provided: ", key>>, 400))

\* C5 as stated: an object holding an undeclared key fails with the 400 error
\* naming that key, whatever else the object holds.
C5_UndeclaredKeyNamed ==
    (Bound /\ bindJson.t = "obj") =>
        \A i \in 1..Len(bindJson.kv) :
            bindJson.kv[i].k \notin FieldNames(bindCls) =>
                bindResult.v = UnexpectedParam(bindJson.kv[i].k)

\* C5 amended: an object holding an undeclared key never binds, and it fails
\* with the 400 error naming that key when every pair before the key binds.
C5_UndeclaredKeyNamedWhenReached ==
    (Bound /\ bindJson.t = "obj") =>
        \A i \in 1..Len(bindJson.kv) :
            bindJson.kv[i].k \notin FieldNames(bindCls) =>
                /\ ~bindResult.v.ok
                /\ (\A j \in 1..(i - 1) : PairBinds(bindCls, bindJson.kv[j])) =>
                       bindResult.v = UnexpectedParam(bindJson.kv[i].k)

\* C5 witness: a nested mapping was bound, then the undeclared key after it
\* was rejected by name.
C5_Witness ==
    /\ Bound
    /\ bindJson.t = "obj"
    /\ Len(bindJson.kv) = 2
    /\ bindJson.kv[1].v.t = "obj"
    /\ bindJson.kv[2].k = "bogus"
    /\ bindResult.v = UnexpectedParam("bogus")

\* Indices of the declared fields that the pairs kv do not supply.
MissingFields(cls, kv) ==
    {i \in 1..Len(Annotations(cls)) : Annotations(cls)[i].name \notin KeysOf(kv)}

MissingRequired(cls, kv) ==
    {i \in MissingFields(cls, kv) : ~IsOptional(Annotations(cls)[i].type)}

\* The attribute a pair that binds leaves on the instance.
BoundValue(cls, pair) ==
    IF pair.v.t = "str" THEN pair.v
    ELSE ModelFromJson(FieldType(cls, pair.k), pair.v).val

\* Every key of the object is declared on cls.
AllKeysDeclared(cls, kv) ==
    \A i \in 1..Len(kv) : kv[i].k \in FieldNames(cls)

\* The outcome for an object whose supplied pairs were all taken: the 400
\* error naming the first missing non-optional field, else an instance whose
\* omitted optional fields are None and whose supplied fields hold the
\* supplied values.
RequiredAndOptionalOutcome ==
    IF MissingRequired(bindCls, bindJson.kv) # {} THEN
        bindResult.v =
            Raise(ApplicationErrorWith(
                <<"missing required param: ",
                  Annotations(bindCls)[Min(MissingRequired(bindCls, bindJson.kv))].name>>,
                400))
    ELSE /\ bindResult.v.ok
         /\ bindResult.v.val.cls = bindCls
         /\ DOMAIN bindResult.v.val.attrs = FieldNames(bindCls)
         /\ \A i \in MissingFields(bindCls, bindJson.kv) :
                bindResult.v.val.attrs[Annotations(bindCls)[i].name] = None
         /\ \A i \in 1..Len(bindJson.kv) :
                bindResult.v.val.attrs[bindJson.kv[i].k] =
                    BoundValue(bindCls, bindJson.kv[i])

\* C6 as stated: for every object whose keys are all declared, a missing
\* non-optional field makes binding fail with the 400 error naming it;
\* otherwise binding succeeds, every omitted optional field is None and every
\* supplied field holds the supplied value.
C6_RequiredAndOptionalFields ==
    (/\ Bound
     /\ bindJson.t = "obj"
     /\ AllKeysDeclared(bindCls, bindJson.kv)) =>
        RequiredAndOptionalOutcome

\* C6 amended: for every object whose keys are all declared, when every
\* supplied pair binds (a string, or a mapping that binds to the field's
\* model type) a missing non-optional field makes binding fail with the 400
\* error naming the first such field, and otherwise binding succeeds with the
\* omitted optional fields None and the supplied values kept; when some
\* supplied pair does not bind, binding fails whatever fields are missing.
C6_RequiredAndOptionalFieldsWhenPairsBind ==
    (/\ Bound
     /\ bindJson.t = "obj"
     /\ AllKeysDeclared(bindCls, bindJson.kv)) =>
        IF \A i \in 1..Len(bindJson.kv) : PairBinds(bindCls, bindJson.kv[i])
        THEN RequiredAndOptionalOutcome
        ELSE ~bindResult.v.ok

\* C6 witness: a DateModel bound from an object that supplies tz and date.
C6_Witness ==
    /\ Bound
    /\ bindCls = "DateModel"
    /\ bindJson.t = "obj"
    /\ KeysOf(bindJson.kv) = {"date", "tz"}
    /\ bindResult.v.ok
    /\ bindResult.v.val.attrs["tz"] = Str(ZoneUTC)

RECURSIVE ContainsList(_)
ContainsList(v) ==
    \/ v.t = "list"
    \/ v.t = "obj" /\ \E i \in 1..Len(v.kv) : ContainsList(v.kv[i].v)

\* C7: a JSON value that is a list, or holds one at any depth, fails with the
\* structured 400 error, never with another exception and never binds.
C7_ListRejected ==
    (Bound /\ ContainsList(bindJson)) =>
        IsApplicationError(bindResult.v) /\ bindResult.v.exc.code = 400

\* C8: a mapping supplied for a declared field whose type is not a model
\* class fails with the structured 400 error.
C8_MappingForPlainField ==
    (/\ Bound
     /\ bindJson.t = "obj"
     /\ \E i \in 1..Len(bindJson.kv) :
            /\ bindJson.kv[i].k \in FieldNames(bindCls)
            /\ FieldType(bindCls, bindJson.kv[i].k) \notin ModelClasses
            /\ bindJson.kv[i].v.t = "obj") =>
        IsApplicationError(bindResult.v) /\ bindResult.v.exc.code = 400
=============================================================================
